---- MODULE Spec2Model ----
(***************************************************************************)
(* Slicer: speech segmentation (main.py), manual cutter (cutter.py),       *)
(* interactive cutter (cutter_gui.py) and batch vertical conversion        *)
(* (crop_sub.py, en_crop_sub.py).                                          *)
(*                                                                         *)
(* Each script is a separate program; each gets its own specification over *)
(* its own group of variables, the other groups staying idle.              *)
(*                                                                         *)
(* Conventions:                                                            *)
(*   - Python None is modelled by None (-1); every value that can be None  *)
(*     is a non-negative frame index or millisecond count otherwise.       *)
(*   - Python lists are sequences; Python list index j is sequence index   *)
(*     j + 1.                                                              *)
(*   - RMS energies are integers in units of 0.001, so that                *)
(*     rms_mean_thresh = 0.01 is 10 and rms_std_thresh = 0.002 is 2.       *)
(***************************************************************************)
EXTENDS Integers, Sequences, FiniteSets, TLC

VARIABLES
    \* ---- main.py: vad_with_music_filter ----
    pc,              \* position in vad_with_music_filter
    frame_ms, padding_ms, min_segment_ms, max_segment_ms,   \* parameters
    is_speech,       \* detector verdict per frame (vad.is_speech)
    rms,             \* RMS energy per frame (compute_rms_array)
    adjusted,        \* verdict after the music filter
    i,               \* loop index of the collection pass
    start,           \* first frame of the open segment, or None
    silence_count,   \* non-speech frames seen since the last speech frame
    collected,       \* every (seg_start_ms, seg_end_ms) computed, before
                     \* the minimum-duration test
    segments,        \* the segments that passed the minimum-duration test
    k,               \* loop index of the splitting pass
    final,           \* the returned list
    \* ---- cutter.py / main.py: cut_video ----
    cut_pc,          \* position in cut_video
    cut_segments,    \* the segments argument
    cut_pos,         \* number of list entries the for loop has consumed
    invocations,     \* the encoder command lines run so far, in order
    clips,           \* output files the encoder has written
    \* ---- cutter_gui.py: run_interactive ----
    running, paused,
    play_pos,        \* playback position, in microseconds
    start_ms,        \* the start mark, or None
    clip_index,
    gui_segments,    \* segments: (start_ms, end_ms, out)
    exporting,       \* output paths of the exports shown as in progress
    threads,         \* export threads started: the arguments of each
    \* ---- crop_sub.py / en_crop_sub.py: process_folder ----
    fold_pc,         \* position in process_folder
    with_subs,       \* TRUE for en_crop_sub.py, FALSE for crop_sub.py
    folder,          \* file names in input_folder
    todo,            \* names os.listdir has still to yield
    conversions,     \* the encoder runs so far: input name, output name
    outputs          \* output folder: file name -> input it was made from

vadvars == <<pc, frame_ms, padding_ms, min_segment_ms, max_segment_ms,
             is_speech, rms, adjusted, i, start, silence_count, collected,
             segments, k, final>>

cutvars == <<cut_pc, cut_segments, cut_pos, invocations, clips>>

guivars == <<running, paused, play_pos, start_ms, clip_index, gui_segments,
             exporting, threads>>

foldvars == <<fold_pc, with_subs, folder, todo, conversions, outputs>>

vars == <<vadvars, cutvars, guivars, foldvars>>

None == -1

Max(a, b) == IF a >= b THEN a ELSE b
Min(a, b) == IF a <= b THEN a ELSE b

(***************************************************************************)
(* Bounds and input domains                                                *)
(***************************************************************************)
MaxFrames == 6

RmsLevels == {1, 12}
FrameMsValues == {300, 600}
PaddingMsValues == {300, 700}
MinSegmentMsValues == {300, 600}
MaxSegmentMsValues == {700, 1000}

RmsStdThresh == 2
RmsMeanThresh == 10

(***************************************************************************)
(* rolling_std                                                             *)
(***************************************************************************)
RECURSIVE SumRange(_, _, _)
\* sum of x[lo..hi] (Python indices, inclusive)
SumRange(x, lo, hi) ==
    IF lo > hi THEN 0 ELSE x[lo + 1] + SumRange(x, lo + 1, hi)

Squares(x) == [j \in 1..Len(x) |-> x[j] * x[j]]

\* np.convolve(x, ones(window), mode='same')[j]: entry j + (min(N, window) - 1) // 2
\* of the full convolution, which sums x over the window ending at that entry
ConvolveSame(x, window, j) ==
    LET m == j + ((Min(Len(x), window) - 1) \div 2)
    IN  SumRange(x, Max(0, m - window + 1), Min(Len(x) - 1, m))

\* window^2 * var[j], with var = c2 - c1 * c1 clipped at 0
RollingVarScaled(x, window, j) ==
    LET s1 == ConvolveSame(x, window, j)
        s2 == ConvolveSame(Squares(x), window, j)
    IN  Max(0, window * s2 - s1 * s1)

\* rolling_std(x, window)[j] < thresh, for thresh >= 0
RollingStdBelow(x, window, j, thresh) ==
    IF window <= 1
    THEN 0 < thresh
    ELSE RollingVarScaled(x, window, j) < thresh * thresh * window * window

WindowFrames(fms) == Max(1, 1000 \div fms)

(***************************************************************************)
(* music filter                                                            *)
(***************************************************************************)
AdjustedFlagAlt(flags, x, fms, j) ==
    IF ~flags[j + 1]
    THEN FALSE
    ELSE ~(x[j + 1] >= RmsMeanThresh
           \/ RollingStdBelow(x, WindowFrames(fms), j, RmsStdThresh))

AdjustedFlag(flags, x, fms, j) ==
    IF ~flags[j + 1]
    THEN FALSE
    ELSE ~(x[j + 1] >= RmsMeanThresh
           /\ RollingStdBelow(x, WindowFrames(fms), j, RmsStdThresh))

Filter ==
    /\ UNCHANGED <<cutvars, guivars, foldvars>>
    /\ pc = "filter"
    /\ adjusted' = [j \in 1..Len(is_speech) |->
                        AdjustedFlag(is_speech, rms, frame_ms, j - 1)]
    /\ pc' = "collect"
    /\ UNCHANGED <<frame_ms, padding_ms, min_segment_ms, max_segment_ms,
                   is_speech, rms, i, start, silence_count, collected,
                   segments, k, final>>

(***************************************************************************)
(* collection pass                                                         *)
(***************************************************************************)
PadFrames(pms, fms) == pms \div fms

KeepSegment(seg, minms) == seg[2] - seg[1] >= minms

ClosesSegmentAlt(count, pad) == count >= pad

ClosesSegment(count, pad) == count > pad

\* seg_end_ms of a segment closed at frame idx after count silent frames
SegEndMsAlt(idx, count, fms) == (idx + count + 1) * fms

SegEndMs(idx, count, fms) == (idx - count + 1) * fms

CollectStep ==
    /\ UNCHANGED <<cutvars, guivars, foldvars>>
    /\ pc = "collect"
    /\ i < Len(adjusted)
    /\ i' = i + 1
    /\ IF adjusted[i + 1]
       THEN /\ start' = IF start = None THEN i ELSE start
            /\ silence_count' = 0
            /\ UNCHANGED <<collected, segments>>
       ELSE IF start # None
            THEN LET count == silence_count + 1
                     seg == <<start * frame_ms, SegEndMs(i, count, frame_ms)>>
                 IN  IF ClosesSegment(count, PadFrames(padding_ms, frame_ms))
                     THEN /\ collected' = Append(collected, seg)
                          /\ segments' = IF KeepSegment(seg, min_segment_ms)
                                         THEN Append(segments, seg)
                                         ELSE segments
                          /\ start' = None
                          /\ silence_count' = 0
                     ELSE /\ silence_count' = count
                          /\ UNCHANGED <<start, collected, segments>>
            ELSE UNCHANGED <<start, silence_count, collected, segments>>
    /\ UNCHANGED <<pc, frame_ms, padding_ms, min_segment_ms, max_segment_ms,
                   is_speech, rms, adjusted, k, final>>

CollectEnd ==
    /\ UNCHANGED <<cutvars, guivars, foldvars>>
    /\ pc = "collect"
    /\ i = Len(adjusted)
    /\ IF start # None
       THEN LET seg == <<start * frame_ms, Len(adjusted) * frame_ms>>
            IN  /\ collected' = Append(collected, seg)
                /\ segments' = IF KeepSegment(seg, min_segment_ms)
                               THEN Append(segments, seg)
                               ELSE segments
       ELSE UNCHANGED <<collected, segments>>
    /\ pc' = "split"
    /\ UNCHANGED <<frame_ms, padding_ms, min_segment_ms, max_segment_ms,
                   is_speech, rms, adjusted, i, start, silence_count, k,
                   final>>

(***************************************************************************)
(* splitting pass                                                          *)
(***************************************************************************)
RECURSIVE SplitLoopAlt(_, _, _)
\* loops while t + max_segment_ms <= e
SplitLoopAlt(t, e, maxms) ==
    IF t + maxms <= e
    THEN <<<<t, t + maxms>>>> \o SplitLoopAlt(t + maxms, e, maxms)
    ELSE <<<<t, e>>>>

RECURSIVE SplitLoop(_, _, _)
\* the while loop and the append that follows it
SplitLoop(t, e, maxms) ==
    IF t + maxms < e
    THEN <<<<t, t + maxms>>>> \o SplitLoop(t + maxms, e, maxms)
    ELSE <<<<t, e>>>>

\* splits once instead of looping
SplitSegmentAlt(s, e, maxms) ==
    IF e - s <= maxms
    THEN <<<<s, e>>>>
    ELSE <<<<s, s + maxms>>, <<s + maxms, e>>>>

SplitSegment(s, e, maxms) ==
    IF e - s <= maxms THEN <<<<s, e>>>> ELSE SplitLoop(s, e, maxms)

SplitStep ==
    /\ UNCHANGED <<cutvars, guivars, foldvars>>
    /\ pc = "split"
    /\ k <= Len(segments)
    /\ final' = final \o SplitSegment(segments[k][1], segments[k][2],
                                      max_segment_ms)
    /\ k' = k + 1
    /\ UNCHANGED <<pc, frame_ms, padding_ms, min_segment_ms, max_segment_ms,
                   is_speech, rms, adjusted, i, start, silence_count,
                   collected, segments>>

Return ==
    /\ UNCHANGED <<cutvars, guivars, foldvars>>
    /\ pc = "split"
    /\ k > Len(segments)
    /\ pc' = "done"
    /\ UNCHANGED <<frame_ms, padding_ms, min_segment_ms, max_segment_ms,
                   is_speech, rms, adjusted, i, start, silence_count,
                   collected, segments, k, final>>

(***************************************************************************)
(* vad_with_music_filter on every frame sequence of at most MaxFrames      *)
(***************************************************************************)
VadIdle ==
    /\ pc = "off"
    /\ frame_ms = 0 /\ padding_ms = 0
    /\ min_segment_ms = 0 /\ max_segment_ms = 0
    /\ is_speech = <<>> /\ rms = <<>> /\ adjusted = <<>>
    /\ i = 0 /\ start = None /\ silence_count = 0
    /\ collected = <<>> /\ segments = <<>> /\ k = 1 /\ final = <<>>

CutIdle ==
    /\ cut_pc = "off"
    /\ cut_segments = <<>> /\ cut_pos = 0
    /\ invocations = <<>> /\ clips = {}

GuiIdle ==
    /\ running = FALSE /\ paused = FALSE
    /\ play_pos = 0 /\ start_ms = None /\ clip_index = 1
    /\ gui_segments = <<>> /\ exporting = <<>> /\ threads = <<>>

FoldIdle ==
    /\ fold_pc = "off" /\ with_subs = FALSE
    /\ folder = {} /\ todo = {}
    /\ conversions = <<>> /\ outputs = {}

Init ==
    /\ CutIdle /\ GuiIdle /\ FoldIdle
    /\ pc = "filter"
    /\ frame_ms \in FrameMsValues
    /\ padding_ms \in PaddingMsValues
    /\ min_segment_ms \in MinSegmentMsValues
    /\ max_segment_ms \in MaxSegmentMsValues
    /\ \E n \in 0..MaxFrames :
          /\ is_speech \in [1..n -> BOOLEAN]
          /\ rms \in [1..n -> RmsLevels]
    /\ adjusted = <<>>
    /\ i = 0
    /\ start = None
    /\ silence_count = 0
    /\ collected = <<>>
    /\ segments = <<>>
    /\ k = 1
    /\ final = <<>>

Next == Filter \/ CollectStep \/ CollectEnd \/ SplitStep \/ Return

Spec == Init /\ [][Next]_vars

(***************************************************************************)
(* Properties of vad_with_music_filter                                     *)
(***************************************************************************)
SegLen(p) == p[2] - p[1]

NFrames == Len(is_speech)

\* C1: no returned (start_ms, end_ms) pair is longer than max_segment_ms.
C1_NoLongSegment ==
    \A j \in 1..Len(final) : SegLen(final[j]) <= max_segment_ms

C1_Witness ==
    /\ pc = "done"
    /\ Len(segments) >= 1
    /\ SegLen(segments[1]) > 2 * max_segment_ms
    /\ Len(final) >= 3

\* C2: no returned (start_ms, end_ms) pair, after the splitting of long
\* segments, is shorter than min_segment_ms.
C2_NoShortSegment ==
    pc = "done" =>
        \A j \in 1..Len(final) : SegLen(final[j]) >= min_segment_ms

\* C4: frame j is treated as speech iff the detector flags it and it is not
\* the case that rms[j] >= rms_mean_thresh and rolling_std[j] <
\* rms_std_thresh; so a frame the detector did not flag is never speech and
\* a flagged frame with energy below rms_mean_thresh is always speech.
C4_MusicFilter ==
    pc # "filter" =>
        /\ Len(adjusted) = NFrames
        /\ \A j \in 1..NFrames :
              LET loud == rms[j] >= RmsMeanThresh
                  flat == RollingStdBelow(rms, WindowFrames(frame_ms), j - 1,
                                          RmsStdThresh)
              IN  /\ adjusted[j] <=> (is_speech[j] /\ ~(loud /\ flat))
                  /\ ~is_speech[j] => ~adjusted[j]
                  /\ (is_speech[j] /\ rms[j] < RmsMeanThresh) => adjusted[j]

C4_Witness ==
    /\ pc # "filter"
    /\ \E j \in 1..NFrames : is_speech[j] /\ ~adjusted[j]
    /\ \E j \in 1..NFrames :
          is_speech[j] /\ rms[j] >= RmsMeanThresh /\ adjusted[j]
    /\ \E j \in 1..NFrames :
          is_speech[j] /\ rms[j] < RmsMeanThresh /\ adjusted[j]
    /\ \E j \in 1..NFrames : ~is_speech[j]

\* frame a (Python index) lies inside the segment seg
InSeg(a, seg) == seg[1] <= a * frame_ms /\ (a + 1) * frame_ms <= seg[2]

SameSegment(a, b) ==
    \E j \in 1..Len(collected) : InSeg(a, collected[j]) /\ InSeg(b, collected[j])

\* more than pad_frames consecutive non-speech frames lie between a and b
LongGap(a, b) ==
    LET pad == padding_ms \div frame_ms
    IN  \E p \in (a + 1)..(b - 1) :
            /\ p + pad <= b - 1
            /\ \A q \in p..(p + pad) : ~adjusted[q + 1]

SpeechFrames == {a \in 0..(Len(adjusted) - 1) : adjusted[a + 1]}

\* C5: in the segments collected before the minimum-duration filter and the
\* splitting, two speech frames separated only by runs of at most pad_frames
\* non-speech frames share a segment, and two speech frames with a run of
\* more than pad_frames non-speech frames between them never do.
C5_MergeByPadding ==
    pc \in {"split", "done"} =>
        \A a, b \in SpeechFrames :
            a <= b => (SameSegment(a, b) <=> ~LongGap(a, b))

C5_Witness ==
    /\ pc = "done"
    /\ padding_ms \div frame_ms >= 1
    /\ \E a, b \in SpeechFrames :
          /\ a < b
          /\ \E q \in (a + 1)..(b - 1) : ~adjusted[q + 1]
          /\ SameSegment(a, b)
    /\ \E a, b \in SpeechFrames : a < b /\ LongGap(a, b) /\ ~SameSegment(a, b)

\* C9: the pieces emitted for a collected segment (s, e) are contiguous, the
\* first starts at s, the last ends at e, every piece but the last is
\* exactly max_segment_ms long and the last has length in
\* (0, max_segment_ms]; a segment no longer than max_segment_ms is emitted
\* unchanged as a single piece.
C9_ExactPartition ==
    [][(pc = "split" /\ k <= Len(segments)) =>
         LET s == segments[k][1]
             e == segments[k][2]
             pieces == SubSeq(final', Len(final) + 1, Len(final'))
             n == Len(pieces)
         IN  /\ n >= 1
             /\ SubSeq(final', 1, Len(final)) = final
             /\ pieces[1][1] = s
             /\ pieces[n][2] = e
             /\ \A j \in 1..(n - 1) :
                   /\ pieces[j][2] = pieces[j + 1][1]
                   /\ SegLen(pieces[j]) = max_segment_ms
             /\ SegLen(pieces[n]) > 0
             /\ SegLen(pieces[n]) <= max_segment_ms
             /\ (e - s <= max_segment_ms) => pieces = <<<<s, e>>>>
             /\ (e - s > max_segment_ms) => n >= 2]_vars

C9_Witness ==
    /\ pc = "done"
    /\ \E j \in 1..Len(segments) : SegLen(segments[j]) > 2 * max_segment_ms
    /\ \E j \in 1..Len(segments) : SegLen(segments[j]) <= max_segment_ms
    /\ Len(final) >= 4

\* C10: the returned list is in strictly ascending time order, each pair
\* satisfies 0 <= start_ms < end_ms <= n_frames * frame_ms, and consecutive
\* pairs never overlap.
C10_WellFormed ==
    /\ \A j \in 1..Len(segments) :
          /\ 0 <= segments[j][1]
          /\ segments[j][1] < segments[j][2]
          /\ segments[j][2] <= NFrames * frame_ms
    /\ \A j \in 1..Len(final) :
          /\ 0 <= final[j][1]
          /\ final[j][1] < final[j][2]
          /\ final[j][2] <= NFrames * frame_ms
    /\ \A j \in 1..(Len(final) - 1) :
          /\ final[j][1] < final[j + 1][1]
          /\ final[j][2] <= final[j + 1][1]

C10_Witness ==
    /\ pc = "done"
    /\ \E j \in 1..(Len(final) - 1) : final[j][2] = final[j + 1][1]
    /\ \E j \in 1..(Len(final) - 1) : final[j][2] < final[j + 1][1]

(***************************************************************************)
(* cutter.py and main.py: cut_video, ffmpeg_cut (the two files hold the    *)
(* same code)                                                              *)
(***************************************************************************)
MaxSegments == 3

\* start and end times a caller may pass, in milliseconds
CutTimes == {0, 1, 9, 10, 200000}

ThreeMinutesMs == 180000

DigitChar == <<"0", "1", "2", "3", "4", "5", "6", "7", "8", "9">>

RECURSIVE DigitsOf(_)
DigitsOf(n) ==
    IF n < 10
    THEN <<DigitChar[n + 1]>>
    ELSE DigitsOf(n \div 10) \o <<DigitChar[(n % 10) + 1]>>

\* f"{n:03d}"
Format03d(n) ==
    LET ds == DigitsOf(n)
    IN  IF Len(ds) >= 3 THEN ds ELSE [j \in 1..(3 - Len(ds)) |-> "0"] \o ds

\* f"clip_{idx:03d}.mp4"
ClipName(idx) ==
    <<"c", "l", "i", "p", "_">> \o Format03d(idx) \o <<".", "m", "p", "4">>

\* Starts s below 1000 ms for which the double s / 1000.0 + 0.001 is smaller
\* than the double (s + 1) / 1000.0; for every other s below 1000 the two
\* are equal.
RoundedDownSums == {9, 13}

\* end_s <= start_s + 0.001 with start_s = s_ms / 1000.0, end_s = e_ms / 1000.0
\* in double arithmetic, for s_ms below 1000 or e_ms # s_ms + 1
EndWithin1ms(s_ms, e_ms) ==
    IF e_ms = s_ms + 1 THEN s_ms \notin RoundedDownSums ELSE e_ms <= s_ms

\* idx of enumerate(segments, start=1) for the entry at Python index pos
EnumerateIndexAlt(pos) == pos

EnumerateIndex(pos) == pos + 1

\* One iteration of the for loop, the call of ffmpeg_cut included.
\* subprocess.run(check=True) raises when the encoder exits with an error,
\* and cut_video does not catch it.
CutStep ==
    /\ UNCHANGED <<vadvars, guivars, foldvars>>
    /\ cut_pc = "loop"
    /\ cut_pos < Len(cut_segments)
    /\ LET s_ms == cut_segments[cut_pos + 1][1]
           e_ms == cut_segments[cut_pos + 1][2]
           out == ClipName(EnumerateIndex(cut_pos))
       IN  IF EndWithin1ms(s_ms, e_ms)
           THEN /\ cut_pos' = cut_pos + 1
                /\ UNCHANGED <<cut_pc, invocations, clips>>
           ELSE /\ invocations' = Append(invocations,
                        [seg |-> cut_pos + 1, ss |-> s_ms, to |-> e_ms,
                         out |-> out])
                /\ \E ok \in BOOLEAN :
                      IF ok
                      THEN /\ clips' = clips \cup {out}
                           /\ cut_pos' = cut_pos + 1
                           /\ UNCHANGED cut_pc
                      ELSE /\ cut_pc' = "raised"
                           /\ UNCHANGED <<clips, cut_pos>>
    /\ UNCHANGED cut_segments

CutReturn ==
    /\ UNCHANGED <<vadvars, guivars, foldvars>>
    /\ cut_pc = "loop"
    /\ cut_pos = Len(cut_segments)
    /\ cut_pc' = "done"
    /\ UNCHANGED <<cut_segments, cut_pos, invocations, clips>>

InitCut ==
    /\ VadIdle /\ GuiIdle /\ FoldIdle
    /\ cut_pc = "loop"
    /\ \E n \in 0..MaxSegments : cut_segments \in [1..n -> CutTimes \X CutTimes]
    /\ cut_pos = 0
    /\ invocations = <<>>
    /\ clips = {}

NextCut == CutStep \/ CutReturn

SpecCut == InitCut /\ [][NextCut]_vars

\* C3: no encoder invocation of the manual cutter covers a range longer than
\* 3 minutes (180000 ms).
C3_NoLongClip ==
    \A j \in 1..Len(invocations) :
        invocations[j].to - invocations[j].ss <= ThreeMinutesMs

\* number of list entries whose iteration has run
Processed == IF cut_pc = "raised" THEN cut_pos + 1 ELSE cut_pos

DurationUs == 40000     \* clip.duration
TickUs == 10500         \* time between two passes of the main loop
MaxClips == 2           \* exports started in one session

FiveSecondsUs == 5000000
TenSecondsUs == 10000000
MarkSlackMs == 10

\* int(play_pos * 1000)
PosMs(pos) == pos \div 1000

TooShortAlt(s, e) == e <= s

\* end_ms <= start_ms + 10
TooShort(s, e) == e <= s + MarkSlackMs

Tick ==
    /\ UNCHANGED <<vadvars, cutvars, foldvars>>
    /\ running
    /\ ~paused
    /\ IF play_pos + TickUs > DurationUs
       THEN play_pos' = DurationUs /\ paused' = TRUE
       ELSE play_pos' = play_pos + TickUs /\ UNCHANGED paused
    /\ UNCHANGED <<running, start_ms, clip_index, gui_segments, exporting,
                   threads>>

\* pygame.QUIT or the Q key
Quit ==
    /\ UNCHANGED <<vadvars, cutvars, foldvars>>
    /\ running
    /\ running' = FALSE
    /\ UNCHANGED <<paused, play_pos, start_ms, clip_index, gui_segments,
                   exporting, threads>>

KeySpace ==
    /\ UNCHANGED <<vadvars, cutvars, foldvars>>
    /\ running
    /\ paused' = ~paused
    /\ UNCHANGED <<running, play_pos, start_ms, clip_index, gui_segments,
                   exporting, threads>>

KeyC ==
    /\ UNCHANGED <<vadvars, cutvars, foldvars>>
    /\ running
    /\ LET ms == PosMs(play_pos)
       IN  IF start_ms = None
           THEN /\ start_ms' = ms
                /\ UNCHANGED <<clip_index, gui_segments, exporting, threads>>
           ELSE IF TooShort(start_ms, ms)
                THEN /\ start_ms' = None
                     /\ UNCHANGED <<clip_index, gui_segments, exporting,
                                    threads>>
                ELSE LET out == ClipName(clip_index)
                     IN  /\ clip_index <= MaxClips
                         /\ exporting' = Append(exporting, out)
                         /\ threads' = Append(threads,
                                [ss |-> start_ms, to |-> ms, out |-> out,
                                 alive |-> TRUE])
                         /\ gui_segments' = Append(gui_segments,
                                                   <<start_ms, ms, out>>)
                         /\ clip_index' = clip_index + 1
                         /\ start_ms' = None
    /\ UNCHANGED <<running, paused, play_pos>>

KeyBackspace ==
    /\ UNCHANGED <<vadvars, cutvars, foldvars>>
    /\ running
    /\ start_ms' = None
    /\ UNCHANGED <<running, paused, play_pos, clip_index, gui_segments,
                   exporting, threads>>

\* the arrow keys: play_pos moves by delta and is clamped to [0, duration]
Seek(delta) ==
    /\ UNCHANGED <<vadvars, cutvars, foldvars>>
    /\ running
    /\ play_pos' = IF delta < 0
                   THEN Max(0, play_pos + delta)
                   ELSE Min(DurationUs, play_pos + delta)
    /\ UNCHANGED <<running, paused, start_ms, clip_index, gui_segments,
                   exporting, threads>>

KeyLeft == Seek(-FiveSecondsUs)
KeyRight == Seek(FiveSecondsUs)
KeyUp == Seek(TenSecondsUs)
KeyDown == Seek(-TenSecondsUs)

\* Removing the first occurrence of x from list l (list.remove)
RemoveFirst(l, x) ==
    IF \E j \in 1..Len(l) : l[j] = x
    THEN LET at == CHOOSE j \in 1..Len(l) :
                       l[j] = x /\ \A h \in 1..(j - 1) : l[h] # x
         IN  SubSeq(l, 1, at - 1) \o SubSeq(l, at + 1, Len(l))
    ELSE l

\* export_clip_thread finishes (the encoder ended or raised): on_export_done
ExportDone ==
    /\ UNCHANGED <<vadvars, cutvars, foldvars>>
    /\ \E j \in 1..Len(threads) :
          /\ threads[j].alive
          /\ threads' = [threads EXCEPT ![j].alive = FALSE]
          /\ exporting' = RemoveFirst(exporting, threads[j].out)
    /\ UNCHANGED <<running, paused, play_pos, start_ms, clip_index,
                   gui_segments>>

InitGui ==
    /\ VadIdle /\ CutIdle /\ FoldIdle
    /\ running = TRUE
    /\ paused = FALSE
    /\ play_pos = 0
    /\ start_ms = None
    /\ clip_index = 1
    /\ gui_segments = <<>>
    /\ exporting = <<>>
    /\ threads = <<>>

NextGui ==
    \/ Tick \/ Quit \/ KeySpace \/ KeyC \/ KeyBackspace
    \/ KeyLeft \/ KeyRight \/ KeyUp \/ KeyDown \/ ExportDone

SpecGui == InitGui /\ [][NextGui]_vars

C7_Recorded ==
    /\ \A j \in 1..Len(gui_segments) :
          gui_segments[j][2] > gui_segments[j][1] + 10
    /\ clip_index = Len(gui_segments) + 1
    /\ Len(threads) = Len(gui_segments)

C7_Step ==
    /\ (KeyC /\ start_ms = None) =>
          /\ start_ms' = PosMs(play_pos)
          /\ UNCHANGED <<gui_segments, clip_index, threads, exporting>>
    /\ (KeyC /\ start_ms # None) =>
          /\ start_ms' = None
          /\ IF PosMs(play_pos) > start_ms + 10
             THEN /\ gui_segments' = Append(gui_segments,
                        <<start_ms, PosMs(play_pos), ClipName(clip_index)>>)
                  /\ clip_index' = clip_index + 1
                  /\ Len(threads') = Len(threads) + 1
                  /\ threads'[Len(threads')].out = ClipName(clip_index)
             ELSE UNCHANGED <<gui_segments, clip_index, threads, exporting>>
    /\ KeyBackspace =>
          /\ start_ms' = None
          /\ UNCHANGED <<gui_segments, clip_index, threads>>
    /\ (gui_segments' # gui_segments \/ clip_index' # clip_index) => KeyC

\* C7: C with no mark sets the mark to the current position and records
\* nothing; C with a mark clears it and records a segment, starting exactly
\* one export and incrementing clip_index by one, only when
\* end_ms > start_ms + 10; Backspace clears the mark and leaves the recorded
\* segments alone; every recorded segment has end_ms > start_ms + 10 and
\* clip_index = number of recorded segments + 1.
C7_MarkStateMachine == [](C7_Recorded) /\ [][C7_Step]_vars

C7_Witness ==
    /\ Len(gui_segments) = 2
    /\ clip_index = 3
    /\ start_ms # None
    /\ PosMs(play_pos) > start_ms
    /\ PosMs(play_pos) <= start_ms + 10

(***************************************************************************)
(* crop_sub.py and en_crop_sub.py: process_folder                          *)
(*                                                                         *)
(* File names are sequences of characters.                                 *)
(***************************************************************************)
FileNames ==
    { <<"a", ".", "m", "p", "4">>,
      <<"a", ".", "m", "o", "v">>,
      <<"b", ".", "M", "K", "V">>,
      <<"a", ".", "b", ".", "a", "v", "i">>,
      <<"a", ".", "t", "x", "t">>,
      <<".", "m", "p", "4">>,
      <<"m", "p", "4">> }

VideoExtensions ==
    { <<".", "m", "p", "4">>, <<".", "m", "o", "v">>,
      <<".", "m", "k", "v">>, <<".", "a", "v", "i">> }

LowerChar(c) ==
    CASE c = "M" -> "m"
      [] c = "K" -> "k"
      [] c = "V" -> "v"
      [] OTHER -> c

\* str.lower
Lower(s) == [j \in 1..Len(s) |-> LowerChar(s[j])]

\* str.endswith
EndsWith(s, suffix) ==
    /\ Len(suffix) <= Len(s)
    /\ SubSeq(s, Len(s) - Len(suffix) + 1, Len(s)) = suffix

IsVideo(fname) == \E ext \in VideoExtensions : EndsWith(Lower(fname), ext)

\* index of the last "." of s, 0 when there is none (str.rfind)
LastDot(s) ==
    IF \E j \in 1..Len(s) : s[j] = "."
    THEN CHOOSE j \in 1..Len(s) :
             s[j] = "." /\ \A h \in (j + 1)..Len(s) : s[h] # "."
    ELSE 0

\* os.path.splitext(fname)[0], for a name without directory separators:
\* the name up to its last dot, unless only dots precede that dot
SplitExtRoot(fname) ==
    LET dot == LastDot(fname)
    IN  IF dot > 0 /\ \E h \in 1..(dot - 1) : fname[h] # "."
        THEN SubSeq(fname, 1, dot - 1)
        ELSE fname

VerticalSuffix == <<"_", "v", "e", "r", "t", "i", "c", "a", "l",
                    ".", "m", "p", "4">>

SrtSuffix == <<".", "s", "r", "t">>

OutName(fname) == SplitExtRoot(fname) \o VerticalSuffix

\* the encoder runs with -y: an existing output file is replaced
WriteFile(dir, name, src) ==
    {f \in dir : f.name # name} \cup {[name |-> name, src |-> src]}

\* One iteration of the for loop. os.listdir yields the names in no
\* particular order. subprocess.run(check=True) raises when the encoder
\* exits with an error, and process_folder does not catch it.
ProcessFile ==
    /\ UNCHANGED <<vadvars, cutvars, guivars>>
    /\ fold_pc = "loop"
    /\ \E fname \in todo :
          /\ todo' = todo \ {fname}
          /\ IF IsVideo(fname)
             THEN LET out == OutName(fname)
                      with_srt == IF with_subs
                                  THEN WriteFile(outputs,
                                           SplitExtRoot(fname) \o SrtSuffix,
                                           fname)
                                  ELSE outputs
                  IN  /\ conversions' = Append(conversions,
                              [input |-> fname, output |-> out])
                      /\ \E ok \in BOOLEAN :
                            IF ok
                            THEN /\ outputs' = WriteFile(with_srt, out, fname)
                                 /\ UNCHANGED fold_pc
                            ELSE /\ outputs' = with_srt
                                 /\ fold_pc' = "raised"
             ELSE UNCHANGED <<fold_pc, conversions, outputs>>
    /\ UNCHANGED <<with_subs, folder>>

ProcessReturn ==
    /\ UNCHANGED <<vadvars, cutvars, guivars>>
    /\ fold_pc = "loop"
    /\ todo = {}
    /\ fold_pc' = "done"
    /\ UNCHANGED <<with_subs, folder, todo, conversions, outputs>>

InitFolder ==
    /\ VadIdle /\ CutIdle /\ GuiIdle
    /\ fold_pc = "loop"
    /\ with_subs \in BOOLEAN
    /\ folder \in SUBSET FileNames
    /\ todo = folder
    /\ conversions = <<>>
    /\ outputs = {}

NextFolder == ProcessFile \/ ProcessReturn

SpecFolder == InitFolder /\ [][NextFolder]_vars

ConversionsOf(fname) ==
    {j \in 1..Len(conversions) : conversions[j].input = fname}

\* C8: every file whose lower-cased name ends in .mp4, .mov, .mkv or .avi is
\* passed to the encoder exactly once, no other file is passed to it, and
\* after the run each such video has its own output <base>_vertical.mp4
\* that was produced from that video.
C8_EveryVideoConverted ==
    fold_pc = "done" =>
        \A fname \in folder :
            IF IsVideo(fname)
            THEN /\ Cardinality(ConversionsOf(fname)) = 1
                 /\ [name |-> OutName(fname), src |-> fname] \in outputs
            ELSE ConversionsOf(fname) = {}

====
